---- MODULE Spec2Model ----
(***************************************************************************)
(* Token-usage metering and tenant quota enforcement of ac-multitenant:    *)
(*   - the Aggregator (dynamodb_stream_processor) folds the INSERT records *)
(*     of the usage table's stream into one aggregate row per tenant;      *)
(*   - Limit Administration (set_tenant_limit) validates and stores a      *)
(*     tenant's token_limit on the same row;                               *)
(*   - the Quota Gate (invoke_agent.check_token_limit) reads the row       *)
(*     before the agent runtime is invoked.                                *)
(* A DynamoDB item is a function from the names of the attributes it has   *)
(* to their values; a table is a function from the keys it holds to items. *)
(***************************************************************************)
EXTENDS Integers, Sequences, FiniteSets, TLC

(* ------------------------------ bounds -------------------------------- *)
\* number of change records the usage table's stream carries in a run
MaxEvents == 3
\* number of Aggregator invocations that can run at the same time
MaxInv == 2

\* largest token limit (and, negated, smallest integer) offered as a limit
MaxLimit == 3
\* longest text offered as a limit
MaxStrLen == 2
\* largest input_tokens and output_tokens of the aggregate a stored row holds
MaxTok == 2
\* number of messages the poller hands to one Ingestion invocation
MaxBatch == 2
\* a finished batch is delivered again only while no increment of it was
\* applied more than this many times
MaxReplays == 1

(* ------------------------- program constants -------------------------- *)
\* DynamoEventSource(retry_attempts=3)
retry_attempts == 3
\* DynamoEventSource(batch_size=10)
batch_size == 10
\* Decimal('0.003') / Decimal('1000') and Decimal('0.015') / Decimal('1000'),
\* in units of 10^-6 (the costs are exact decimals with six places)
InputRateMicro == 3
OutputRateMicro == 15
\* sqs.DeadLetterQueue(max_receive_count=3, queue=self.usage_dlq)
max_receive_count == 3
\* SqsEventSource(usage_queue, batch_size=10)
sqs_batch_size == 10

VARIABLES
    aggregation_table,  \* token-aggregation table: aggregation_key -> item
    stream,             \* change records delivered to the Aggregator so far
    inv,                \* the Aggregator invocations
    applied,            \* per stream position: times its increment was applied
    request,            \* the last request an API handler received
    response,           \* the response it returned
    gate,               \* what check_token_limit returned for that request
    agent_calls,        \* number of invoke_agent_runtime calls made
    candidate,          \* a candidate token limit
    verdict,            \* what validate_token_limit returned for it
    usage_queue,        \* token-usage-queue: the messages it holds
    usage_dlq,          \* token-usage-dlq: the messages parked in it
    receive_count,      \* per message sent: times the queue handed it out
    usage_table,        \* token-usage table: (id, timestamp) -> item
    ingestion           \* how the last Ingestion invocation ended

vars == <<aggregation_table, stream, inv, applied, request, response, gate,
          agent_calls, candidate, verdict, usage_queue, usage_dlq,
          receive_count, usage_table, ingestion>>

aggregatorVars == <<stream, inv, applied>>
apiVars == <<request, response, gate, agent_calls>>
validationVars == <<candidate, verdict>>
ingestVars == <<usage_queue, usage_dlq, receive_count, usage_table, ingestion>>

(* --------------------------- DynamoDB items --------------------------- *)
\* dict.get(name, default)
Get(item, name, default) == IF name \in DOMAIN item THEN item[name] ELSE default

\* one key for every tenant: all tenants share a row
AggregationKeyShared(tenant_id) == <<"tenant", "default">>

\* f"tenant:{tenant_id}"
AggregationKey(tenant_id) == <<"tenant", tenant_id>>

\* Table.update_item(Key, UpdateExpression='ADD ... SET ...'): one atomic
\* server-side upsert. ADD adds to the attribute (an absent attribute counts
\* as 0), SET overwrites it, every other attribute of the item is kept, and
\* the item is created when the key is absent.
UpdatedItem(table, key, adds, sets) ==
    LET old == IF key \in DOMAIN table THEN table[key]
               ELSE [aggregation_key |-> key]
    IN  [a \in DOMAIN old \cup DOMAIN adds \cup DOMAIN sets |->
            IF a \in DOMAIN sets THEN sets[a]
            ELSE IF a \in DOMAIN adds THEN Get(old, a, 0) + adds[a]
            ELSE old[a]]

update_item(table, key, adds, sets) ==
    [k \in DOMAIN table \cup {key} |->
        IF k = key THEN UpdatedItem(table, key, adds, sets) ELSE table[k]]

EmptyMap == [a \in {} |-> 0]

(* ----------------------------- Aggregator ----------------------------- *)
\* NewImage of a stream record, in DynamoDB's typed format: each attribute
\* is {'S': text} or {'N': number}. Ingestion stores the message as it came,
\* so an attribute can be missing or carry text where a number is expected.
NumAttr(n) == [N |-> n]
StrAttr(s) == [S |-> s]

\* <<input_tokens, output_tokens, total_tokens>> of the usage events drawn
TokenTriples == {<<1, 1, 2>>, <<2, 1, 3>>}

NewImages ==
    {[tenant_id |-> StrAttr("t1"), input_tokens |-> NumAttr(x[1]),
      output_tokens |-> NumAttr(x[2]), total_tokens |-> NumAttr(x[3])] :
        x \in TokenTriples}
    \cup
    {[input_tokens |-> NumAttr(x[1]),
      output_tokens |-> NumAttr(x[2]), total_tokens |-> NumAttr(x[3])] :
        x \in TokenTriples}

\* the stream's view type is NEW_IMAGE: a MODIFY record carries the item as
\* it is after the change, a REMOVE record carries no image
ModifiedImage ==
    [tenant_id |-> StrAttr("t1"), input_tokens |-> NumAttr(1),
     output_tokens |-> NumAttr(1), total_tokens |-> NumAttr(2)]

ChangeRecords ==
    {[eventName |-> "INSERT", NewImage |-> img] : img \in NewImages}
    \cup {[eventName |-> "MODIFY", NewImage |-> ModifiedImage],
          [eventName |-> "REMOVE"]}

\* new_item.get('tenant_id', {}).get('S', 'default')
TenantOf(new_item) == Get(Get(new_item, "tenant_id", EmptyMap), "S", "default")

\* int(new_item.get(name, {}).get('N', '0'))
TokensOf(new_item, name) == Get(Get(new_item, name, EmptyMap), "N", 0)

RECURSIVE SumOver(_, _)
SumOver(S, f) ==
    IF S = {} THEN 0
    ELSE LET x == CHOOSE y \in S : TRUE IN f[x] + SumOver(S \ {x}, f)

\* the handler acting on every record that carries a NewImage
InsertsAndModifies(batch) == {p \in batch : stream[p].eventName \in {"INSERT", "MODIFY"}}

\* positions of a batch that hold an INSERT record (of tenant t)
Inserts(batch) == {p \in batch : stream[p].eventName = "INSERT"}
InsertsOf(batch, t) == {p \in Inserts(batch) : TenantOf(stream[p].NewImage) = t}

\* the keys of tenant_aggregations after the loop over event['Records'], in
\* the order the loop inserted them (a dict keeps insertion order): recs is
\* the batch, a sequence of change records
RECURSIVE TenantOrder(_)
TenantOrder(recs) ==
    IF recs = <<>> THEN <<>>
    ELSE LET n     == Len(recs)
             front == TenantOrder(SubSeq(recs, 1, n - 1))
             last  == recs[n]
         IN  IF last.eventName # "INSERT" THEN front
             ELSE IF \E k \in 1..Len(front) : front[k] = TenantOf(last.NewImage)
                  THEN front
                  ELSE Append(front, TenantOf(last.NewImage))

\* the accumulation written with `=` where the handler has `+=`: the sums
\* hold the tokens of the tenant's last record only
TenantAggregationOverwrites(batch, t) ==
    LET ps   == InsertsOf(batch, t)
        last == CHOOSE p \in ps : \A q \in ps : q <= p
    IN  [input_tokens  |-> TokensOf(stream[last].NewImage, "input_tokens"),
         output_tokens |-> TokensOf(stream[last].NewImage, "output_tokens"),
         total_tokens  |-> TokensOf(stream[last].NewImage, "total_tokens"),
         request_count |-> 1]

\* tenant_aggregations[tenant_id] after the loop over event['Records']
TenantAggregation(batch, t) ==
    LET ps == InsertsOf(batch, t)
    IN  [input_tokens  |-> SumOver(ps, [p \in ps |-> TokensOf(stream[p].NewImage, "input_tokens")]),
         output_tokens |-> SumOver(ps, [p \in ps |-> TokensOf(stream[p].NewImage, "output_tokens")]),
         total_tokens  |-> SumOver(ps, [p \in ps |-> TokensOf(stream[p].NewImage, "total_tokens")]),
         request_count |-> Cardinality(ps)]

\* the cost increments rounded down to five decimal places before they are
\* added
AggregatorAddsRounded(aggregation) ==
    LET input_cost_increment  ==
            ((aggregation.input_tokens * InputRateMicro) \div 10) * 10
        output_cost_increment ==
            ((aggregation.output_tokens * OutputRateMicro) \div 10) * 10
    IN  [input_tokens  |-> aggregation.input_tokens,
         output_tokens |-> aggregation.output_tokens,
         total_tokens  |-> aggregation.total_tokens,
         request_count |-> aggregation.request_count,
         input_cost    |-> input_cost_increment,
         output_cost   |-> output_cost_increment,
         total_cost    |-> input_cost_increment + output_cost_increment]

\* the ADD part of the Aggregator's UpdateExpression
AggregatorAdds(aggregation) ==
    LET input_cost_increment  == aggregation.input_tokens * InputRateMicro
        output_cost_increment == aggregation.output_tokens * OutputRateMicro
        total_cost_increment  == input_cost_increment + output_cost_increment
    IN  [input_tokens  |-> aggregation.input_tokens,
         output_tokens |-> aggregation.output_tokens,
         total_tokens  |-> aggregation.total_tokens,
         request_count |-> aggregation.request_count,
         input_cost    |-> input_cost_increment,
         output_cost   |-> output_cost_increment,
         total_cost    |-> total_cost_increment]

\* the update written as a write of values computed by the invocation (SET
\* of the batch's sums) instead of a server-side ADD
AggregatorUpdateSets(table, t, aggregation) ==
    update_item(table, AggregationKey(t), EmptyMap,
                [a \in DOMAIN AggregatorAdds(aggregation) \cup {"tenant_id"} |->
                    IF a = "tenant_id" THEN t ELSE AggregatorAdds(aggregation)[a]])

\* an update made conditional on the row not holding counters yet: a batch
\* that comes again for a counted tenant adds nothing
AggregatorUpdateOnce(table, t, aggregation) ==
    IF "request_count" \in DOMAIN
          (IF AggregationKey(t) \in DOMAIN table THEN table[AggregationKey(t)]
           ELSE EmptyMap)
    THEN table
    ELSE update_item(table, AggregationKey(t), AggregatorAdds(aggregation),
                     [tenant_id |-> t])

\* aggregation_table.update_item(... 'ADD ... SET tenant_id = :tenant_id')
AggregatorUpdate(table, t, aggregation) ==
    update_item(table, AggregationKey(t), AggregatorAdds(aggregation),
                [tenant_id |-> t])

Invocations == 1..MaxInv
Idle == [pc |-> "idle"]

\* sequences over S of length 1..n
SeqsUpTo(S, n) == UNION {[1..k -> S] : k \in 1..n}

\* The event source hands a batch of new change records to a free invocation
\* and lambda_handler runs its loop over event['Records']. With no INSERT
\* record in the batch tenant_aggregations is empty, nothing is updated and
\* the handler returns 200.
AggregatorInvoke(i, recs) ==
    /\ inv[i].pc = "idle"
    /\ \A j \in 1..(i - 1) : inv[j].pc # "idle"
    /\ Len(recs) <= batch_size
    /\ Len(stream) + Len(recs) <= MaxEvents
    /\ stream' = stream \o recs
    /\ applied' = applied \o [k \in 1..Len(recs) |-> 0]
    /\ inv' = [inv EXCEPT ![i] =
                 IF TenantOrder(recs) = <<>> THEN Idle
                 ELSE [pc |-> "updating",
                       batch |-> (Len(stream) + 1)..(Len(stream) + Len(recs)),
                       order |-> TenantOrder(recs), next |-> 1, attempts |-> 0]]
    /\ UNCHANGED <<aggregation_table, apiVars, validationVars, ingestVars>>

\* one pass of `for tenant_id, aggregation in tenant_aggregations.items()`
\* whose update_item succeeds; after the last one the handler returns 200
AggregatorUpdateItem(i) ==
    /\ inv[i].pc = "updating"
    /\ LET t == inv[i].order[inv[i].next]
       IN  /\ aggregation_table' =
                AggregatorUpdate(aggregation_table, t,
                                 TenantAggregation(inv[i].batch, t))
           /\ applied' = [p \in DOMAIN applied |->
                            IF p \in InsertsOf(inv[i].batch, t)
                            THEN applied[p] + 1 ELSE applied[p]]
    /\ inv' = [inv EXCEPT ![i] =
                 IF inv[i].next = Len(inv[i].order) THEN Idle
                 ELSE [inv[i] EXCEPT !.next = inv[i].next + 1]]
    /\ UNCHANGED <<stream, apiVars, validationVars, ingestVars>>

\* update_item raises: the except clause logs and re-raises, the invocation
\* ends with an error and the updates it made before stay in the table
AggregatorUpdateFails(i) ==
    /\ inv[i].pc = "updating"
    /\ inv' = [inv EXCEPT ![i] = [inv[i] EXCEPT !.pc = "failed"]]
    /\ UNCHANGED <<aggregation_table, stream, applied, apiVars, validationVars, ingestVars>>

\* an event source without retries: the failed batch is dropped at once
AggregatorDropsFailed(i) ==
    /\ inv[i].pc = "failed"
    /\ inv' = [inv EXCEPT ![i] = Idle]
    /\ UNCHANGED <<aggregation_table, stream, applied, apiVars, validationVars, ingestVars>>

\* the event source delivers the failed batch again (retry_attempts times at
\* most): lambda_handler starts over with the same records
AggregatorRetry(i) ==
    /\ inv[i].pc = "failed"
    /\ inv[i].attempts < retry_attempts
    /\ inv' = [inv EXCEPT ![i] = [inv[i] EXCEPT !.pc = "updating", !.next = 1,
                                                !.attempts = inv[i].attempts + 1]]
    /\ UNCHANGED <<aggregation_table, stream, applied, apiVars, validationVars, ingestVars>>

\* the retries are used up: the event source drops the batch
AggregatorDiscard(i) ==
    /\ inv[i].pc = "failed"
    /\ inv[i].attempts >= retry_attempts
    /\ inv' = [inv EXCEPT ![i] = Idle]
    /\ UNCHANGED <<aggregation_table, stream, applied, apiVars, validationVars, ingestVars>>

\* The stream's event source delivers at least once: an invocation that
\* has finished its updates but was not acknowledged (a crash or a timeout
\* before the checkpoint) is followed by an invocation on the same batch,
\* which here is the whole stream.
AggregatorRedeliver(i) ==
    /\ inv[i].pc = "idle"
    /\ TenantOrder(stream) # <<>>
    /\ \A p \in DOMAIN applied : applied[p] <= MaxReplays
    /\ inv' = [inv EXCEPT ![i] =
                 [pc |-> "updating", batch |-> DOMAIN stream,
                  order |-> TenantOrder(stream), next |-> 1, attempts |-> 0]]
    /\ UNCHANGED <<aggregation_table, stream, applied, apiVars, validationVars, ingestVars>>

(* ------------------------ Limit Administration ------------------------ *)
\* The values json.loads can put under 'tokenLimit', tagged with their
\* Python type. A float is held in tenths (25 is 2.5); text is a sequence of
\* characters.
NoneValue == [type |-> "NoneType"]
BoolValue(b) == [type |-> "bool", b |-> b]
IntValue(n) == [type |-> "int", n |-> n]
FloatValue(tenths) == [type |-> "float", tenths |-> tenths]
InfValue == [type |-> "float", special |-> "inf"]
NanValue == [type |-> "float", special |-> "nan"]
StrValue(s) == [type |-> "str", s |-> s]
ListValue == [type |-> "list"]

Chars == {"0", "1", "7", "-", " ", "x"}
Digits == {"0", "1", "7"}
DigitValue(c) == CASE c = "0" -> 0 [] c = "1" -> 1 [] c = "7" -> 7

\* str.strip(): int() ignores the whitespace around the digits
RECURSIVE Strip(_)
Strip(s) ==
    IF s = <<>> THEN s
    ELSE IF Head(s) = " " THEN Strip(Tail(s))
    ELSE IF s[Len(s)] = " " THEN Strip(SubSeq(s, 1, Len(s) - 1))
    ELSE s

RECURSIVE DecimalValue(_)
DecimalValue(ds) ==
    IF ds = <<>> THEN 0
    ELSE 10 * DecimalValue(SubSeq(ds, 1, Len(ds) - 1)) + DigitValue(ds[Len(ds)])

Raised(exc) == [ok |-> FALSE, exc |-> exc]
Returned(n) == [ok |-> TRUE, n |-> n]

\* int(text): optional whitespace, an optional sign, then one or more digits;
\* anything else raises ValueError
IntOfStr(s) ==
    LET body   == Strip(s)
        signed == body # <<>> /\ Head(body) = "-"
        ds     == IF signed THEN Tail(body) ELSE body
    IN  IF ds # <<>> /\ \A k \in 1..Len(ds) : ds[k] \in Digits
        THEN Returned(IF signed THEN 0 - DecimalValue(ds) ELSE DecimalValue(ds))
        ELSE Raised("ValueError")

\* float.is_integer(): False for a fractional part, for inf and for nan
IsInteger(value) ==
    IF "special" \in DOMAIN value THEN FALSE ELSE value.tenths % 10 = 0

\* int(value), by the type of the value; a float is truncated towards zero
IntOf(value) ==
    CASE value.type = "int"   -> Returned(value.n)
      [] value.type = "bool"  -> Returned(IF value.b THEN 1 ELSE 0)
      [] value.type = "float" ->
            IF "special" \in DOMAIN value
            THEN Raised(IF value.special = "inf" THEN "OverflowError" ELSE "ValueError")
            ELSE Returned(IF value.tenths >= 0 THEN value.tenths \div 10
                          ELSE 0 - ((0 - value.tenths) \div 10))
      [] value.type = "str"   -> IntOfStr(value.s)
      [] OTHER                -> Raised("TypeError")

Invalid(message) == [is_valid |-> FALSE, error_message |-> message]
Valid == [is_valid |-> TRUE]

MsgRequired == "Token limit is required"
MsgPositiveInteger == "Token limit must be a positive integer"
MsgNotDecimal == "Token limit must be a positive integer, not a decimal"
MsgGreaterThanZero == "Token limit must be greater than zero"

\* the test on the sign of int_value left out: any integer passes
validate_token_limit_unsigned(value) ==
    IF value.type = "NoneType" THEN Invalid(MsgRequired)
    ELSE IF value.type = "bool" THEN Invalid(MsgPositiveInteger)
    ELSE IF value.type = "float" /\ ~IsInteger(value) THEN Invalid(MsgNotDecimal)
    ELSE IF ~IntOf(value).ok THEN Invalid(MsgPositiveInteger)
    ELSE Valid

\* the comparison written `int_value < 0`: zero passes
validate_token_limit_zero(value) ==
    IF value.type = "NoneType" THEN Invalid(MsgRequired)
    ELSE IF value.type = "bool" THEN Invalid(MsgPositiveInteger)
    ELSE IF value.type = "float" /\ ~IsInteger(value) THEN Invalid(MsgNotDecimal)
    ELSE LET int_value == IntOf(value)
         IN  IF ~int_value.ok THEN Invalid(MsgPositiveInteger)
             ELSE IF int_value.n < 0 THEN Invalid(MsgGreaterThanZero)
             ELSE Valid

\* the isinstance(value, bool) test left out: int(True) is 1
validate_token_limit_bool(value) ==
    IF value.type = "NoneType" THEN Invalid(MsgRequired)
    ELSE IF value.type = "float" /\ ~IsInteger(value) THEN Invalid(MsgNotDecimal)
    ELSE LET int_value == IntOf(value)
         IN  IF ~int_value.ok THEN Invalid(MsgPositiveInteger)
             ELSE IF int_value.n <= 0 THEN Invalid(MsgGreaterThanZero)
             ELSE Valid

\* validate_token_limit(value) -> (is_valid, error_message)
validate_token_limit(value) ==
    IF value.type = "NoneType" THEN Invalid(MsgRequired)
    ELSE IF value.type = "bool" THEN Invalid(MsgPositiveInteger)
    ELSE IF value.type = "float" /\ ~IsInteger(value) THEN Invalid(MsgNotDecimal)
    ELSE LET int_value == IntOf(value)
         IN  IF ~int_value.ok THEN Invalid(MsgPositiveInteger)
             ELSE IF int_value.n <= 0 THEN Invalid(MsgGreaterThanZero)
             ELSE Valid

\* a limit-set that starts a new metering period: the usage counted so far
\* is set back to zero with the new limit
LimitUpdateResetsUsage(table, tenant_id, token_limit_int) ==
    update_item(table, AggregationKey(tenant_id), EmptyMap,
                [token_limit |-> token_limit_int, tenant_id |-> tenant_id,
                 total_tokens |-> 0, request_count |-> 0])

\* the limit stored with put_item: the item is replaced, not merged
LimitUpdatePuts(table, tenant_id, token_limit_int) ==
    [k \in DOMAIN table \cup {AggregationKey(tenant_id)} |->
        IF k = AggregationKey(tenant_id)
        THEN [aggregation_key |-> k, token_limit |-> token_limit_int,
              tenant_id |-> tenant_id]
        ELSE table[k]]

\* the limit stored only on a row that exists (no upsert)
LimitUpdateExisting(table, tenant_id, token_limit_int) ==
    IF AggregationKey(tenant_id) \in DOMAIN table
    THEN update_item(table, AggregationKey(tenant_id), EmptyMap,
                     [token_limit |-> token_limit_int, tenant_id |-> tenant_id])
    ELSE table

\* update_item(... 'SET token_limit = :limit, tenant_id = :tenant_id')
LimitUpdate(table, tenant_id, token_limit_int) ==
    update_item(table, AggregationKey(tenant_id), EmptyMap,
                [token_limit |-> token_limit_int, tenant_id |-> tenant_id])

\* `not tenant_id` taken as a test for None only: the empty text passes
FalsyNoneOnly(body, name) == name \notin DOMAIN body

\* `if not tenant_id`: the key is missing or the text is empty
Falsy(body, name) == name \notin DOMAIN body \/ body[name] = ""

Reply(status, body) == [statusCode |-> status, body |-> body]

\* set_tenant_limit.lambda_handler on a request body; update_raises says
\* whether the update_item call raises (the handler then answers 500)
set_tenant_limit(body, update_raises) ==
    LET token_limit == Get(body, "tokenLimit", NoneValue)
        validation  == validate_token_limit(token_limit)
    IN  /\ request' = [op |-> "set_tenant_limit", body |-> body,
                       raises |-> update_raises]
        /\ IF Falsy(body, "tenantId")
           THEN /\ response' = Reply(400, [error |-> "tenantId is required"])
                /\ UNCHANGED aggregation_table
           ELSE IF ~validation.is_valid
           THEN /\ response' = Reply(400, [error |-> validation.error_message])
                /\ UNCHANGED aggregation_table
           ELSE IF update_raises
           THEN /\ response' = Reply(500, [error |-> "update_item failed"])
                /\ UNCHANGED aggregation_table
           ELSE /\ aggregation_table' =
                     LimitUpdate(aggregation_table, body.tenantId,
                                 IntOf(token_limit).n)
                /\ response' = Reply(200, [success |-> TRUE,
                                           tenantId |-> body.tenantId,
                                           tokenLimit |-> IntOf(token_limit).n])
        /\ UNCHANGED <<aggregatorVars, gate, agent_calls, validationVars, ingestVars>>

(* ------------------------------ Ingestion ----------------------------- *)
\* The bodies of the messages on the usage queue: the text of a JSON object
\* (held as the object it denotes) or a text that is not JSON.
JsonObject(value) == [kind |-> "object", value |-> value]
NotJson == [kind |-> "text"]

\* json.loads(record["body"])
json_loads(body) ==
    IF body.kind = "object" THEN [ok |-> TRUE, value |-> body.value]
    ELSE Raised("JSONDecodeError")

\* the usage messages of a run: a well-formed usage event, one without
\* total_tokens, one without id, and one whose body is not JSON
UsageMessages ==
    {[MessageId |-> "m1",
      body |-> JsonObject([id |-> "e1", timestamp |-> "ts1", tenant_id |-> "t1",
                           input_tokens |-> 1, output_tokens |-> 1,
                           total_tokens |-> 2])],
     [MessageId |-> "m2",
      body |-> JsonObject([id |-> "e2", timestamp |-> "ts2", tenant_id |-> "t1",
                           input_tokens |-> 1, output_tokens |-> 1])],
     [MessageId |-> "m3",
      body |-> JsonObject([timestamp |-> "ts3", tenant_id |-> "t1",
                           input_tokens |-> 1, output_tokens |-> 1,
                           total_tokens |-> 2])],
     [MessageId |-> "m4", body |-> NotJson]}

\* the primary key of the usage table: partition key id, sort key timestamp
UsageKey(item) == <<item.id, item.timestamp>>

\* a store that appends: every write gets a key of its own
put_item_appends(table, item) ==
    IF {"id", "timestamp"} \subseteq DOMAIN item
    THEN [ok |-> TRUE,
          table |-> [k \in DOMAIN table \cup
                          {<<item.id, item.timestamp, Cardinality(DOMAIN table)>>} |->
                        IF k \in DOMAIN table THEN table[k] ELSE item]]
    ELSE [ok |-> FALSE, table |-> table]

\* table.put_item(Item=message): the item replaces whatever the table holds
\* under its key; an item without a key attribute is refused
put_item(table, item) ==
    IF {"id", "timestamp"} \subseteq DOMAIN item
    THEN [ok |-> TRUE,
          table |-> [k \in DOMAIN table \cup {UsageKey(item)} |->
                        IF k = UsageKey(item) THEN item ELSE table[k]]]
    ELSE [ok |-> FALSE, table |-> table]

\* the loop body with an except clause that logs and goes on to the next
\* record instead of re-raising
ProcessRecordSkips(table, message, put_raises) ==
    LET parsed == json_loads(message.body)
    IN  IF ~parsed.ok \/ put_raises THEN [ok |-> TRUE, table |-> table]
        ELSE [ok |-> TRUE, table |-> put_item(table, parsed.value).table]

\* the body of the loop on one record: json.loads, put_item (put_raises says
\* whether the call fails for a reason of its own), then the print that reads
\* message['id'] and message['total_tokens']
ProcessRecord(table, message, put_raises) ==
    LET parsed == json_loads(message.body)
    IN  IF ~parsed.ok \/ put_raises THEN [ok |-> FALSE, table |-> table]
        ELSE LET put == put_item(table, parsed.value)
             IN  IF ~put.ok THEN put
                 ELSE [ok |-> {"id", "total_tokens"} \subseteq DOMAIN parsed.value,
                       table |-> put.table]

\* `for record in event["Records"]` from record k on: the first exception is
\* re-raised and ends the invocation; raises is the position of the record
\* whose put_item fails (0 when none does)
RECURSIVE IngestionLoop(_, _, _, _)
IngestionLoop(table, batch, k, raises) ==
    IF k > Len(batch) THEN [ok |-> TRUE, table |-> table]
    ELSE LET done == ProcessRecord(table, batch[k], raises = k)
         IN  IF ~done.ok THEN done
             ELSE IngestionLoop(done.table, batch, k + 1, raises)

NotInvoked == [invoked |-> FALSE]
Success == [invoked |-> TRUE, statusCode |-> 200, body |-> "Success"]
Failed == [invoked |-> TRUE, errorType |-> "Exception"]

\* a queue without a redrive policy: a message is handed out however many
\* times it was received before
BatchesUnlimited(queue, counts) ==
    {b \in SeqsUpTo(queue, MaxBatch) :
        /\ Len(b) <= sqs_batch_size
        /\ \A j, k \in DOMAIN b : j # k => b[j] # b[k]}

\* the batches the poller can hand over: messages of the queue that have
\* not used up their receives, each once
Batches(queue, counts) ==
    {b \in SeqsUpTo(queue, MaxBatch) :
        /\ Len(b) <= sqs_batch_size
        /\ \A j, k \in DOMAIN b : j # k => b[j] # b[k]
        /\ \A k \in DOMAIN b : counts[b[k].MessageId] < max_receive_count}

Range(seq) == {seq[k] : k \in DOMAIN seq}

\* sqs.send_message(QueueUrl=QUEUE_URL, MessageBody=...)
SendMessage(m) ==
    /\ m.MessageId \notin DOMAIN receive_count
    /\ usage_queue' = usage_queue \cup {m}
    /\ receive_count' = [id \in DOMAIN receive_count \cup {m.MessageId} |->
                           IF id = m.MessageId THEN 0 ELSE receive_count[id]]
    /\ UNCHANGED <<usage_dlq, usage_table, ingestion>>
    /\ UNCHANGED <<aggregation_table, aggregatorVars, apiVars, validationVars>>

\* The poller receives a batch (each receive is counted) and invokes
\* lambda_handler on it. When the handler returns, the batch is deleted from
\* the queue; when it raises, every message of the batch stays in the queue
\* and is visible again after the visibility timeout.
IngestionInvoke(batch, raises) ==
    /\ batch \in Batches(usage_queue, receive_count)
    /\ raises \in 0..Len(batch)
    /\ LET run == IngestionLoop(usage_table, batch, 1, raises)
       IN  /\ usage_table' = run.table
           /\ ingestion' = IF run.ok THEN Success ELSE Failed
           /\ usage_queue' = IF run.ok THEN usage_queue \ Range(batch)
                             ELSE usage_queue
    /\ receive_count' = [id \in DOMAIN receive_count |->
                           IF id \in {m.MessageId : m \in Range(batch)}
                           THEN receive_count[id] + 1 ELSE receive_count[id]]
    /\ UNCHANGED usage_dlq
    /\ UNCHANGED <<aggregation_table, aggregatorVars, apiVars, validationVars>>

\* a queue without a dead-letter queue: the message is dropped
MoveToDeadLetterDrops(m) ==
    /\ m \in usage_queue
    /\ receive_count[m.MessageId] >= max_receive_count
    /\ usage_queue' = usage_queue \ {m}
    /\ UNCHANGED <<usage_dlq, receive_count, usage_table, ingestion>>
    /\ UNCHANGED <<aggregation_table, aggregatorVars, apiVars, validationVars>>

\* the redrive policy: a message that was received max_receive_count times
\* is moved to the dead-letter queue instead of being handed out again
MoveToDeadLetter(m) ==
    /\ m \in usage_queue
    /\ receive_count[m.MessageId] >= max_receive_count
    /\ usage_queue' = usage_queue \ {m}
    /\ usage_dlq' = usage_dlq \cup {m}
    /\ UNCHANGED <<receive_count, usage_table, ingestion>>
    /\ UNCHANGED <<aggregation_table, aggregatorVars, apiVars, validationVars>>

\* the limit-set requests that run beside the Aggregator
TenantIds == {"t1", "default"}
ConcurrentBodies ==
    {[tenantId |-> "t1", tokenLimit |-> IntValue(2)],
     [tenantId |-> "t1", tokenLimit |-> IntValue(4)],
     [tenantId |-> "default", tokenLimit |-> IntValue(2)]}

NoRequest == [op |-> "none"]
NoResponse == [statusCode |-> 0]
NoGate == [checked |-> FALSE]
NotValidated == [validated |-> FALSE]

Init ==
    /\ aggregation_table = [k \in {} |-> EmptyMap]
    /\ stream = <<>>
    /\ inv = [i \in Invocations |-> Idle]
    /\ applied = <<>>
    /\ request = NoRequest
    /\ response = NoResponse
    /\ gate = NoGate
    /\ agent_calls = 0
    /\ candidate = NoneValue
    /\ verdict = NotValidated
    /\ usage_queue = {}
    /\ usage_dlq = {}
    /\ receive_count = EmptyMap
    /\ usage_table = [k \in {} |-> EmptyMap]
    /\ ingestion = NotInvoked

Next ==
    \/ \E i \in Invocations :
          \E recs \in SeqsUpTo(ChangeRecords, MaxEvents - Len(stream)) :
             AggregatorInvoke(i, recs)
    \/ \E i \in Invocations : AggregatorUpdateItem(i)
    \/ \E body \in ConcurrentBodies : set_tenant_limit(body, FALSE)

Spec == Init /\ [][Next]_vars

(* ----------------- validate_token_limit on its own -------------------- *)
Texts == UNION {[1..k -> Chars] : k \in 0..MaxStrLen}

TokenLimitValues ==
    {NoneValue, BoolValue(TRUE), BoolValue(FALSE), InfValue, NanValue, ListValue}
    \cup {IntValue(n) : n \in (0 - MaxLimit)..MaxLimit}
    \cup {FloatValue(5 * h) : h \in (0 - 2 * MaxLimit)..(2 * MaxLimit)}
    \cup {StrValue(s) : s \in Texts}

InitValidate ==
    /\ aggregation_table = [k \in {} |-> EmptyMap]
    /\ stream = <<>>
    /\ inv = [i \in Invocations |-> Idle]
    /\ applied = <<>>
    /\ request = NoRequest
    /\ response = NoResponse
    /\ gate = NoGate
    /\ agent_calls = 0
    /\ candidate \in TokenLimitValues
    /\ verdict = NotValidated
    /\ usage_queue = {}
    /\ usage_dlq = {}
    /\ receive_count = EmptyMap
    /\ usage_table = [k \in {} |-> EmptyMap]
    /\ ingestion = NotInvoked

\* validate_token_limit is called on the candidate
Validate ==
    /\ verdict = NotValidated
    /\ verdict' = [validated |-> TRUE, result |-> validate_token_limit(candidate)]
    /\ UNCHANGED <<aggregation_table, aggregatorVars, apiVars, candidate, ingestVars>>

SpecValidate == InitValidate /\ [][Validate]_vars

(* ------------------- rows the aggregation table holds ----------------- *)
\* tenant_aggregations entries the Aggregator can have summed from a batch
StoredAggregations ==
    {[input_tokens |-> i, output_tokens |-> o, total_tokens |-> i + o,
      request_count |-> 1] : i \in 0..MaxTok, o \in 0..MaxTok}

\* the table after at most one Aggregator update and at most one limit-set
\* for tenant t (aggs and limits are sequences of length 0 or 1)
WithRow(table, t, aggs, limits) ==
    LET counted == IF aggs = <<>> THEN table
                   ELSE AggregatorUpdate(table, t, aggs[1])
    IN  IF limits = <<>> THEN counted ELSE LimitUpdate(counted, t, limits[1])

AtMostOne(S) == {<<>>} \cup {<<x>> : x \in S}

\* tables the handlers can meet: any row for t1, and for the default tenant
\* no row or a row that is at its limit
StoredTables ==
    {WithRow(WithRow([k \in {} |-> EmptyMap], "default", d, d_limit),
             "t1", aggs, limits) :
        aggs \in AtMostOne(StoredAggregations),
        limits \in AtMostOne(1..MaxLimit),
        d \in AtMostOne({[input_tokens |-> 1, output_tokens |-> 1,
                          total_tokens |-> 2, request_count |-> 1]}),
        d_limit \in AtMostOne({2})}

InitStored ==
    /\ aggregation_table \in StoredTables
    /\ stream = <<>>
    /\ inv = [i \in Invocations |-> Idle]
    /\ applied = <<>>
    /\ request = NoRequest
    /\ response = NoResponse
    /\ gate = NoGate
    /\ agent_calls = 0
    /\ candidate = NoneValue
    /\ verdict = NotValidated
    /\ usage_queue = {}
    /\ usage_dlq = {}
    /\ receive_count = EmptyMap
    /\ usage_table = [k \in {} |-> EmptyMap]
    /\ ingestion = NotInvoked

(* -------------------- set_tenant_limit on its own --------------------- *)
\* request bodies: tenantId missing, empty or given; tokenLimit missing or
\* any of the values
OptionalField(name, S) == {EmptyMap} \cup {[a \in {name} |-> x] : x \in S}

Merge(f, g) == [a \in DOMAIN f \cup DOMAIN g |-> IF a \in DOMAIN f THEN f[a] ELSE g[a]]

LimitBodies ==
    {Merge(t, l) : t \in OptionalField("tenantId", {"", "t1", "default"}),
                   l \in OptionalField("tokenLimit", TokenLimitValues)}

NextLimit ==
    /\ request = NoRequest
    /\ \E body \in LimitBodies, update_raises \in BOOLEAN :
          set_tenant_limit(body, update_raises)

SpecLimit == InitStored /\ [][NextLimit]_vars

(* ----------------------------- Quota Gate ----------------------------- *)
Decision(allowed, usage_info) ==
    [checked |-> TRUE, allowed |-> allowed, usage_info |-> usage_info]

\* a gate that denies only when usage equals the limit
LimitReachedExactly(total_tokens, token_limit) == total_tokens = token_limit

\* a gate that never finds the limit reached
LimitNeverReached(total_tokens, token_limit) == FALSE

\* `if total_tokens > token_limit`: usage equal to the limit passes
LimitOvershot(total_tokens, token_limit) == total_tokens > token_limit

\* `if total_tokens >= token_limit`
LimitReached(total_tokens, token_limit) == total_tokens >= token_limit

\* a missing item read as a row without usage
NoItemZeroUsage == Decision(TRUE, [total_tokens |-> 0])

\* `if not item: return True, {}`
NoItemDecision == Decision(TRUE, EmptyMap)

\* the except clause failing closed
ReadErrorDenies == Decision(FALSE, EmptyMap)

\* `except Exception: ... return True, {}`
ReadErrorDecision == Decision(TRUE, EmptyMap)

\* check_token_limit(tenant_id) -> (allowed, usage_info). configured: the
\* environment names the aggregation table; get_item_raises: the read fails.
check_token_limit(table, tenant_id, configured, get_item_raises) ==
    IF ~configured THEN Decision(TRUE, EmptyMap)
    ELSE IF get_item_raises THEN ReadErrorDecision
    ELSE IF AggregationKey(tenant_id) \notin DOMAIN table
         THEN NoItemDecision
    ELSE LET item == table[AggregationKey(tenant_id)]
         IN  IF "token_limit" \notin DOMAIN item
             THEN Decision(TRUE, [total_tokens |-> Get(item, "total_tokens", 0)])
             ELSE LET total_tokens == Get(item, "total_tokens", 0)
                      token_limit  == item.token_limit
                      usage_info   == [tenant_id |-> tenant_id,
                                       total_tokens |-> total_tokens,
                                       token_limit |-> token_limit]
                  IN  IF LimitReached(total_tokens, token_limit)
                      THEN Decision(FALSE, usage_info)
                      ELSE Decision(TRUE, usage_info)

\* the denial reported as a server error
DeniedReplyServerError(tenant_id, usage_info) ==
    Reply(500, [error |-> "Token limit exceeded",
                tenant_id |-> tenant_id,
                token_limit |-> Get(usage_info, "token_limit", NoneValue),
                current_usage |-> Get(usage_info, "total_tokens", NoneValue)])

\* the response of lambda_handler to a request the gate denied
DeniedReply(tenant_id, usage_info) ==
    Reply(429, [error |-> "Token limit exceeded",
                tenant_id |-> tenant_id,
                token_limit |-> Get(usage_info, "token_limit", NoneValue),
                current_usage |-> Get(usage_info, "total_tokens", NoneValue)])

\* a handler that invokes the runtime first and checks the quota afterwards
invoke_agent_then_check(body, configured, get_item_raises, invoke_raises) ==
    LET decision == check_token_limit(aggregation_table, body.tenantId,
                                      configured, get_item_raises)
    IN  /\ request' = [op |-> "invoke_agent", body |-> body,
                       configured |-> configured,
                       get_item_raises |-> get_item_raises,
                       invoke_raises |-> invoke_raises]
        /\ IF Falsy(body, "agentId") \/ Falsy(body, "inputText")
           THEN /\ response' = Reply(400, [error |-> "agentId and inputText are required"])
                /\ gate' = NoGate
                /\ UNCHANGED agent_calls
           ELSE /\ agent_calls' = agent_calls + 1
                /\ gate' = IF Falsy(body, "tenantId") THEN NoGate ELSE decision
                /\ response' =
                     IF ~Falsy(body, "tenantId") /\ ~decision.allowed
                     THEN DeniedReply(body.tenantId, decision.usage_info)
                     ELSE IF invoke_raises
                     THEN Reply(500, [error |-> "invoke_agent_runtime failed"])
                     ELSE Reply(200, [completion |-> "text",
                                      sessionId |-> Get(body, "sessionId", "default-session")])
        /\ UNCHANGED <<aggregation_table, aggregatorVars, validationVars, ingestVars>>

\* a handler that checks a request naming no tenant against the row of the
\* tenant "default"
invoke_agent_default_tenant(body, configured, get_item_raises, invoke_raises) ==
    LET tenant_id == IF Falsy(body, "tenantId") THEN "default" ELSE body.tenantId
        decision == check_token_limit(aggregation_table, tenant_id,
                                      configured, get_item_raises)
    IN  /\ request' = [op |-> "invoke_agent", body |-> body,
                       configured |-> configured,
                       get_item_raises |-> get_item_raises,
                       invoke_raises |-> invoke_raises]
        /\ IF Falsy(body, "agentId") \/ Falsy(body, "inputText")
           THEN /\ response' = Reply(400, [error |-> "agentId and inputText are required"])
                /\ gate' = NoGate
                /\ UNCHANGED agent_calls
           ELSE IF ~decision.allowed
           THEN /\ response' = DeniedReply(tenant_id, decision.usage_info)
                /\ gate' = decision
                /\ UNCHANGED agent_calls
           ELSE /\ gate' = decision
                /\ agent_calls' = agent_calls + 1
                /\ response' =
                     IF invoke_raises
                     THEN Reply(500, [error |-> "invoke_agent_runtime failed"])
                     ELSE Reply(200, [completion |-> "text",
                                      sessionId |-> Get(body, "sessionId", "default-session")])
        /\ UNCHANGED <<aggregation_table, aggregatorVars, validationVars, ingestVars>>

\* invoke_agent.lambda_handler on a request body; invoke_raises says whether
\* invoke_agent_runtime raises
invoke_agent(body, configured, get_item_raises, invoke_raises) ==
    LET decision == check_token_limit(aggregation_table, body.tenantId,
                                      configured, get_item_raises)
    IN  /\ request' = [op |-> "invoke_agent", body |-> body,
                       configured |-> configured,
                       get_item_raises |-> get_item_raises,
                       invoke_raises |-> invoke_raises]
        /\ IF Falsy(body, "agentId") \/ Falsy(body, "inputText")
           THEN /\ response' = Reply(400, [error |-> "agentId and inputText are required"])
                /\ gate' = NoGate
                /\ UNCHANGED agent_calls
           ELSE IF ~Falsy(body, "tenantId") /\ ~decision.allowed
           THEN /\ response' = DeniedReply(body.tenantId, decision.usage_info)
                /\ gate' = decision
                /\ UNCHANGED agent_calls
           ELSE /\ gate' = IF Falsy(body, "tenantId") THEN NoGate ELSE decision
                /\ agent_calls' = agent_calls + 1
                /\ response' =
                     IF invoke_raises
                     THEN Reply(500, [error |-> "invoke_agent_runtime failed"])
                     ELSE Reply(200, [completion |-> "text",
                                      sessionId |-> Get(body, "sessionId", "default-session")])
        /\ UNCHANGED <<aggregation_table, aggregatorVars, validationVars, ingestVars>>

InvokeBodies ==
    {Merge(Merge(a, x), t) :
        a \in OptionalField("agentId", {"arn"}),
        x \in OptionalField("inputText", {"", "hi"}),
        t \in OptionalField("tenantId", {"", "t1", "default", "t2"})}

NextGate ==
    /\ request = NoRequest
    /\ \E body \in InvokeBodies, configured, get_item_raises, invoke_raises \in BOOLEAN :
          invoke_agent(body, configured, get_item_raises, invoke_raises)

SpecGate == InitStored /\ [][NextGate]_vars

(* ------------------------- Aggregator: claims ------------------------- *)
(* ---------------------- the ingestion pipeline ------------------------ *)
NextIngest ==
    \/ \E m \in UsageMessages : SendMessage(m)
    \/ \E batch \in Batches(usage_queue, receive_count) :
          \E raises \in 0..Len(batch) : IngestionInvoke(batch, raises)
    \/ \E m \in usage_queue : MoveToDeadLetter(m)

SpecIngest == Init /\ [][NextIngest]_vars

\* The event source mapping keeps polling the queue while it holds a message
\* that can be handed out, and the queue applies its redrive policy.
SpecIngestFair ==
    /\ SpecIngest
    /\ WF_vars(\E batch \in Batches(usage_queue, receive_count) :
                  \E raises \in 0..Len(batch) : IngestionInvoke(batch, raises))
    /\ WF_vars(\E m \in usage_queue : MoveToDeadLetter(m))

(* ------------- one batch, with failures and redelivery ---------------- *)
\* A single batch is handed to the Aggregator; an update_item call can
\* raise, the event source retries the batch, and a finished batch can be
\* delivered again.
NextRetry ==
    \/ /\ stream = <<>>
       /\ \E recs \in SeqsUpTo(ChangeRecords, MaxEvents) : AggregatorInvoke(1, recs)
    \/ AggregatorUpdateItem(1)
    \/ AggregatorUpdateFails(1)
    \/ AggregatorRetry(1)
    \/ AggregatorDiscard(1)
    \/ AggregatorRedeliver(1)

SpecRetry == Init /\ [][NextRetry]_vars

(* -------------------- from the queue to the aggregate ----------------- *)
\* Usage events Ingestion accepts (a JSON object with id, timestamp and
\* total_tokens): the three token counts are read one by one from the
\* model's usage metrics, each with a default of 0, so the total need not
\* be the sum of the other two and any of them can be missing.
AcceptedMessages ==
    {[MessageId |-> "m1",
      body |-> JsonObject([id |-> "e1", timestamp |-> "ts1", tenant_id |-> "t1",
                           input_tokens |-> 1, output_tokens |-> 1,
                           total_tokens |-> 2])],
     [MessageId |-> "m5",
      body |-> JsonObject([id |-> "e5", timestamp |-> "ts5", tenant_id |-> "t1",
                           input_tokens |-> 1, output_tokens |-> 1,
                           total_tokens |-> 3])],
     [MessageId |-> "m6",
      body |-> JsonObject([id |-> "e6", timestamp |-> "ts6",
                           total_tokens |-> 2])]}

\* the item in the typed format of the stream: numbers under 'N', text
\* under 'S'
NumberAttributes == {"input_tokens", "output_tokens", "total_tokens"}
ToImage(item) ==
    [a \in DOMAIN item |->
        IF a \in NumberAttributes THEN NumAttr(item[a]) ELSE StrAttr(item[a])]

\* the INSERT record the stream carries for an item put under a new key
InsertRecord(item) == [eventName |-> "INSERT", NewImage |-> ToImage(item)]

\* a stream that carries an INSERT record for every delivery of a message
\* whose event is stored, the rewrites of a stored record included
PendingRecordsPerDelivery ==
    {InsertRecord(usage_table[k]) : k \in
        {j \in DOMAIN usage_table :
            \E m \in AcceptedMessages :
               /\ m.body.value = usage_table[j]
               /\ Cardinality({p \in DOMAIN stream :
                                  stream[p] = InsertRecord(usage_table[j])})
                    < receive_count[m.MessageId]}}

\* the change records of the usage table not yet handed to the Aggregator
PendingRecords ==
    {InsertRecord(usage_table[k]) : k \in DOMAIN usage_table} \ Range(stream)

\* the batches the stream's event source can hand over: pending records,
\* each once
PendingBatches ==
    {recs \in SeqsUpTo(PendingRecords, Cardinality(PendingRecords)) :
        \A j, k \in DOMAIN recs : j # k => recs[j] # recs[k]}

NextPipeline ==
    \/ \E m \in AcceptedMessages : SendMessage(m)
    \/ \E batch \in Batches(usage_queue, receive_count) :
          \E raises \in 0..Len(batch) : IngestionInvoke(batch, raises)
    \/ \E m \in usage_queue : MoveToDeadLetter(m)
    \/ \E recs \in PendingBatches : AggregatorInvoke(1, recs)
    \/ AggregatorUpdateItem(1)

SpecPipeline == Init /\ [][NextPipeline]_vars

(* ------------------- the gate beside the recording -------------------- *)
\* One tenant: its limit is set while it has no usage, then invoke requests
\* naming the tenant pass through the gate, and the usage event of each
\* request that was invoked reaches the Aggregator at some later time.
QuotaTenant == "t1"

QuotaLimitBodies ==
    {[tenantId |-> QuotaTenant, tokenLimit |-> IntValue(n)] : n \in 1..MaxLimit}

QuotaInvokeBody == [agentId |-> "arn", inputText |-> "hi", tenantId |-> QuotaTenant]

\* the INSERT records of the usage events of the tenant's requests
QuotaRecords ==
    {rec \in ChangeRecords :
        rec.eventName = "INSERT" /\ TenantOf(rec.NewImage) = QuotaTenant}

NextQuota ==
    \/ /\ aggregation_table = [k \in {} |-> EmptyMap]
       /\ \E body \in QuotaLimitBodies : set_tenant_limit(body, FALSE)
    \/ /\ agent_calls < MaxEvents
       /\ invoke_agent(QuotaInvokeBody, TRUE, FALSE, FALSE)
    \/ \E recs \in SeqsUpTo(QuotaRecords, MaxEvents) :
          /\ Len(stream) + Len(recs) <= agent_calls
          /\ AggregatorInvoke(1, recs)
    \/ AggregatorUpdateItem(1)

SpecQuota == Init /\ [][NextQuota]_vars

(* ------------------ checks, usage and limit changes ------------------- *)
\* One tenant: limit-sets, quota checks (whose read of the row can fail) and
\* the aggregation of the tenant's usage events, in any order.
NextDenial ==
    \/ \E body \in QuotaLimitBodies : set_tenant_limit(body, FALSE)
    \/ \E get_item_raises \in BOOLEAN :
          /\ invoke_agent(QuotaInvokeBody, TRUE, get_item_raises, FALSE)
          /\ agent_calls' <= MaxEvents
    \/ \E recs \in SeqsUpTo(QuotaRecords, MaxEvents) : AggregatorInvoke(1, recs)
    \/ AggregatorUpdateItem(1)

SpecDenial == Init /\ [][NextDenial]_vars

(* ------------- stored events and transient update failures ------------ *)
\* update_item raises on a delivery that still has a retry left: the
\* failure is transient, the last delivery of a batch goes through
AggregatorUpdateFailsTransient(i) ==
    /\ inv[i].pc = "updating"
    /\ inv[i].attempts < retry_attempts
    /\ AggregatorUpdateFails(i)

\* Events are stored by Ingestion, the stream hands their INSERT records to
\* the Aggregator, whose updates can fail transiently and are retried.
NextTransient ==
    \/ \E m \in AcceptedMessages : SendMessage(m)
    \/ \E batch \in Batches(usage_queue, receive_count) : IngestionInvoke(batch, 0)
    \/ \E recs \in PendingBatches : AggregatorInvoke(1, recs)
    \/ AggregatorUpdateItem(1)
    \/ AggregatorUpdateFailsTransient(1)
    \/ AggregatorRetry(1)

SpecTransient == Init /\ [][NextTransient]_vars

\* The stream's event source keeps handing over the records it has not yet
\* delivered, a running handler goes on with its loop, and a failed batch
\* is delivered again.
SpecTransientFair ==
    /\ SpecTransient
    /\ WF_vars(\E recs \in PendingBatches : AggregatorInvoke(1, recs))
    /\ WF_vars(AggregatorUpdateItem(1))
    /\ WF_vars(AggregatorRetry(1))

CounterFields == {"input_tokens", "output_tokens", "total_tokens", "request_count"}
CostFields == {"input_cost", "output_cost", "total_cost"}

\* the item of tenant t in a table (no attribute at all when there is none)
ItemOf(table, t) ==
    IF AggregationKey(t) \in DOMAIN table THEN table[AggregationKey(t)]
    ELSE EmptyMap

\* the attributes of the item of t among `fields`, absent ones left out
FieldsOf(table, t, fields) ==
    LET item == ItemOf(table, t)
    IN  [a \in DOMAIN item \cap fields |-> item[a]]

\* a UsageEvent's tenant: its tenant_id, the sentinel when it has none
EventTenant(p) ==
    IF "tenant_id" \in DOMAIN stream[p].NewImage
    THEN stream[p].NewImage.tenant_id.S ELSE "default"

EventsOf(t) ==
    {p \in DOMAIN stream : stream[p].eventName = "INSERT" /\ EventTenant(p) = t}

Quiescent == \A i \in Invocations : inv[i].pc = "idle"

EachInsertProcessedOnce ==
    \A p \in DOMAIN stream : stream[p].eventName = "INSERT" => applied[p] = 1

\* C1: once the INSERT record of every event has been processed once, each
\* tenant's aggregate row has total_tokens equal to the sum of the events'
\* total_tokens and request_count equal to the number of events, whatever
\* the batches were and whatever order they ran in.
C1_AggregateIsSumOfEvents ==
    (Quiescent /\ EachInsertProcessedOnce) =>
        \A t \in TenantIds :
            /\ Get(ItemOf(aggregation_table, t), "total_tokens", 0) =
                 SumOver(EventsOf(t),
                         [p \in EventsOf(t) |-> stream[p].NewImage.total_tokens.N])
            /\ Get(ItemOf(aggregation_table, t), "request_count", 0) =
                 Cardinality(EventsOf(t))

\* two events of one tenant and one of the default tenant, each processed once
C1_Witness ==
    /\ Quiescent /\ EachInsertProcessedOnce
    /\ Cardinality(EventsOf("t1")) >= 2
    /\ Cardinality(EventsOf("default")) >= 1
    /\ ItemOf(aggregation_table, "t1").total_tokens >= 5

\* C2: no increment is lost under any interleaving of the invocations: in
\* every state each counter of a tenant's row is the sum of the increments
\* applied for that tenant so far (0 before the first).
C2_NoIncrementLost ==
    \A t \in TenantIds :
        LET ps == EventsOf(t)
            item == ItemOf(aggregation_table, t)
        IN  /\ \A name \in {"input_tokens", "output_tokens", "total_tokens"} :
                 Get(item, name, 0) =
                   SumOver(ps, [p \in ps |->
                                  applied[p] * TokensOf(stream[p].NewImage, name)])
            /\ Get(item, "request_count", 0) = SumOver(ps, [p \in ps |-> applied[p]])

\* two invocations are in flight and the next update of both is for the
\* same tenant, whose row already holds counters
C2_Witness ==
    \E i, j \in Invocations :
        /\ i # j
        /\ inv[i].pc = "updating" /\ inv[j].pc = "updating"
        /\ inv[i].order[inv[i].next] = inv[j].order[inv[j].next]
        /\ Get(ItemOf(aggregation_table, inv[i].order[inv[i].next]),
               "request_count", 0) > 0

\* a step of set_tenant_limit / a step in which an invocation updated a row
LimitStep == UNCHANGED aggregatorVars
UpdateStep == applied' # applied /\ stream' = stream

\* C3: a limit write and an Aggregator write on the same row do not
\* interfere: the limit write stores the new token_limit and changes no
\* counter or cost field of any row; the Aggregator write adds to the
\* counters and leaves token_limit (set or absent) as it was.
C3_LimitAndCountersMerge ==
    [][ /\ LimitStep =>
             /\ \A t \in TenantIds :
                  FieldsOf(aggregation_table', t, CounterFields \cup CostFields) =
                  FieldsOf(aggregation_table, t, CounterFields \cup CostFields)
             /\ response'.statusCode = 200 =>
                  ItemOf(aggregation_table', response'.body.tenantId).token_limit =
                  response'.body.tokenLimit
        /\ UpdateStep =>
             /\ \A t \in TenantIds :
                  FieldsOf(aggregation_table', t, {"token_limit"}) =
                  FieldsOf(aggregation_table, t, {"token_limit"})
             /\ \E t \in TenantIds :
                  Get(ItemOf(aggregation_table', t), "request_count", 0) >
                  Get(ItemOf(aggregation_table, t), "request_count", 0)
      ]_vars

\* a row holds a limit and counters while an invocation is about to add to it
C3_Witness ==
    \E i \in Invocations :
        /\ inv[i].pc = "updating"
        /\ LET item == ItemOf(aggregation_table, inv[i].order[inv[i].next])
           IN  /\ "token_limit" \in DOMAIN item
               /\ Get(item, "request_count", 0) > 0
               /\ request.op = "set_tenant_limit"

(* ------------------------- Quota Gate: claims ------------------------- *)
\* the last request was an invoke request that reached the quota check
GateChecked == request.op = "invoke_agent" /\ gate.checked

\* ... and the check read the usage store without an error
GateRead == GateChecked /\ request.configured /\ ~request.get_item_raises

GateItem == ItemOf(aggregation_table, request.body.tenantId)
GateHasRow == AggregationKey(request.body.tenantId) \in DOMAIN aggregation_table

\* C4: for a tenant that has a row, the check allows iff the row has no
\* token_limit or its total_tokens (0 when it has none) is below the limit:
\* usage equal to the limit is denied, one below is allowed.
C4_AllowedIffBelowLimit ==
    (GateRead /\ GateHasRow) =>
        LET usage == IF "total_tokens" \in DOMAIN GateItem
                     THEN GateItem.total_tokens ELSE 0
        IN  gate.allowed <=>
              ("token_limit" \notin DOMAIN GateItem \/ usage < GateItem.token_limit)

\* usage exactly at the limit, denied
C4_Witness ==
    /\ GateRead /\ GateHasRow
    /\ "token_limit" \in DOMAIN GateItem /\ "total_tokens" \in DOMAIN GateItem
    /\ GateItem.total_tokens = GateItem.token_limit
    /\ ~gate.allowed

\* C5: a check for a tenant without an aggregate row is allowed and its
\* usage info is empty.
C5_NoRowAllowed ==
    (GateRead /\ ~GateHasRow) =>
        gate.allowed /\ DOMAIN gate.usage_info = {}

C5_Witness ==
    /\ GateRead /\ ~GateHasRow /\ gate.allowed
    /\ agent_calls = 1
    /\ DOMAIN aggregation_table # {}

\* C6: when the read of the usage store raises, the gate allows, the agent
\* runtime is invoked, and the response is an error only if the runtime
\* call itself failed.
C6_FailOpen ==
    (/\ request.op = "invoke_agent"
     /\ ~Falsy(request.body, "agentId") /\ ~Falsy(request.body, "inputText")
     /\ ~Falsy(request.body, "tenantId")
     /\ request.get_item_raises) =>
        /\ gate.checked /\ gate.allowed
        /\ agent_calls = 1
        /\ response.statusCode = IF request.invoke_raises THEN 500 ELSE 200

\* the read fails for a tenant whose row is at its limit; the request is served
C6_Witness ==
    /\ GateChecked /\ request.configured /\ request.get_item_raises
    /\ GateHasRow /\ "token_limit" \in DOMAIN GateItem
    /\ Get(GateItem, "total_tokens", 0) >= GateItem.token_limit
    /\ response.statusCode = 200

\* C7: the response has status 429 exactly when the gate denied, and then
\* its body carries the token_limit and the total_tokens of the tenant's row.
C7_DeniedIs429WithNumbers ==
    request.op = "invoke_agent" =>
        /\ response.statusCode = 429 <=> (gate.checked /\ ~gate.allowed)
        /\ response.statusCode = 429 =>
             /\ response.body.tenant_id = request.body.tenantId
             /\ response.body.token_limit = GateItem.token_limit
             /\ response.body.current_usage = Get(GateItem, "total_tokens", 0)

C7_Witness ==
    /\ request.op = "invoke_agent" /\ response.statusCode = 429
    /\ response.body.token_limit = response.body.current_usage
    /\ response.body.token_limit = MaxLimit
    /\ agent_calls = 0

(* -------------------- Limit Administration: claims -------------------- *)
\* the value is text, int or float that denotes an integer
CoercesToInteger(v) ==
    \/ v.type = "int"
    \/ v.type = "float" /\ "tenths" \in DOMAIN v /\ v.tenths % 10 = 0
    \/ v.type = "str" /\ IntOfStr(v.s).ok

HasFraction(v) ==
    v.type = "float" /\ "tenths" \in DOMAIN v /\ v.tenths % 10 # 0

Validated == verdict.validated

\* C8: a value is accepted iff it is not missing, not a boolean, has no
\* fractional part and coerces to an integer > 0: an integer n iff n > 0, no
\* boolean, no float with a fraction, a text iff it parses as an integer > 0.
C8_ValidIffPositiveInteger ==
    Validated =>
        /\ verdict.result.is_valid <=>
             /\ candidate.type \notin {"NoneType", "bool"}
             /\ ~HasFraction(candidate)
             /\ CoercesToInteger(candidate)
             /\ IntOf(candidate).n > 0
        /\ candidate.type = "int" =>
             (verdict.result.is_valid <=> candidate.n > 0)
        /\ candidate.type = "bool" => ~verdict.result.is_valid
        /\ HasFraction(candidate) => ~verdict.result.is_valid
        /\ candidate.type = "str" =>
             (verdict.result.is_valid <=>
                (IntOfStr(candidate.s).ok /\ IntOfStr(candidate.s).n > 0))

\* text with whitespace around a positive integer, accepted
C8_Witness ==
    /\ Validated /\ verdict.result.is_valid
    /\ candidate.type = "str" /\ Len(candidate.s) = 2
    /\ " " \in {candidate.s[k] : k \in 1..2}

ValidLimitRequest(req) ==
    /\ req.op = "set_tenant_limit"
    /\ ~Falsy(req.body, "tenantId")
    /\ "tokenLimit" \in DOMAIN req.body
    /\ req.body.tokenLimit.type \notin {"NoneType", "bool"}
    /\ CoercesToInteger(req.body.tokenLimit)
    /\ IntOf(req.body.tokenLimit).n > 0
    /\ ~req.raises

\* C10: a limit-set with a tenantId and a valid limit stores the integer
\* value of the limit as token_limit, with tenant_id, on the tenant's row,
\* creating the row when absent; no counter or cost field of any row
\* changes; the response's tokenLimit is the value stored.
C10_LimitStored ==
    [][ ValidLimitRequest(request') =>
          LET t    == request'.body.tenantId
              item == ItemOf(aggregation_table', t)
          IN  /\ AggregationKey(t) \in DOMAIN aggregation_table'
              /\ item.token_limit = IntOf(request'.body.tokenLimit).n
              /\ item.tenant_id = t
              /\ \A u \in TenantIds :
                   FieldsOf(aggregation_table', u, CounterFields \cup CostFields) =
                   FieldsOf(aggregation_table, u, CounterFields \cup CostFields)
              /\ response'.statusCode = 200
              /\ response'.body.tokenLimit = item.token_limit
              /\ response'.body.tenantId = t
      ]_vars

\* a limit given as text was stored on a row that holds counters
C10_Witness ==
    /\ ValidLimitRequest(request)
    /\ request.body.tokenLimit.type = "str"
    /\ LET item == ItemOf(aggregation_table, request.body.tenantId)
       IN  /\ Get(item, "request_count", 0) > 0
           /\ item.token_limit = 1
           /\ response.body.tokenLimit = 1

\* the request names no tenant: 'tenantId' is absent or the empty text
TenantIdMissing(body) == "tenantId" \notin DOMAIN body \/ body.tenantId = ""

\* the request's tokenLimit is not a positive integer
TokenLimitRejected(body) ==
    \/ "tokenLimit" \notin DOMAIN body
    \/ body.tokenLimit.type \in {"NoneType", "bool"}
    \/ ~CoercesToInteger(body.tokenLimit)
    \/ IntOf(body.tokenLimit).n <= 0

EventOf(m) == IF m.body.kind = "object" THEN m.body.value ELSE EmptyMap

Keyed(m) == {"id", "timestamp"} \subseteq DOMAIN EventOf(m)

\* the keys of the record store that carry the (id, timestamp) of an event
StoredUnder(table, event) ==
    {k \in DOMAIN table : k[1] = event.id /\ k[2] = event.timestamp}

\* the store holds exactly one record with the event's key, equal to the event
ExactlyOneRecord(table, event) ==
    /\ Cardinality(StoredUnder(table, event)) = 1
    /\ \A k \in StoredUnder(table, event) : table[k] = event

\* the messages handed to Ingestion in a step
DeliveredInStep(m) ==
    /\ m.MessageId \in DOMAIN receive_count
    /\ receive_count'[m.MessageId] > receive_count[m.MessageId]

\* C12: Ingestion is idempotent under redelivery: whenever the record store
\* holds a record with the (id, timestamp) of a usage message it holds
\* exactly one, with the content of the message, and delivering the message
\* again (alone or in a batch with others) leaves that record as it is.
C12_RedeliveryKeepsOneRecord ==
    [][ \A m \in UsageMessages :
          Keyed(m) =>
            /\ StoredUnder(usage_table', EventOf(m)) # {} =>
                 ExactlyOneRecord(usage_table', EventOf(m))
            /\ (DeliveredInStep(m) /\ ExactlyOneRecord(usage_table, EventOf(m))) =>
                 /\ ExactlyOneRecord(usage_table', EventOf(m))
                 /\ StoredUnder(usage_table', EventOf(m)) =
                    StoredUnder(usage_table, EventOf(m))
      ]_vars

\* the well-formed message was handed out three times, its last batch
\* succeeded, and its record is in the store beside that of another message
C12_Witness ==
    \E m \in UsageMessages :
        /\ Keyed(m) /\ "total_tokens" \in DOMAIN EventOf(m)
        /\ m.MessageId \in DOMAIN receive_count
        /\ receive_count[m.MessageId] = 3
        /\ m \notin usage_queue /\ m \notin usage_dlq
        /\ ingestion = Success
        /\ ExactlyOneRecord(usage_table, EventOf(m))
        /\ Cardinality(DOMAIN usage_table) = 2

\* parsing the message or writing its event cannot succeed
CannotBeWritten(m) == m.body.kind # "object" \/ ~Keyed(m)

\* C13: when parsing or writing a message of the batch fails the invocation
\* ends with an error and every message of the batch stays in the queue for
\* redelivery; the invocation returns success only when every message of the
\* batch has its record in the record store.
C13_FailureFailsWholeBatch ==
    [][ (\E m \in UsageMessages : DeliveredInStep(m)) =>
          /\ ingestion' \in {Success, Failed}
          /\ (\E m \in UsageMessages : DeliveredInStep(m) /\ CannotBeWritten(m)) =>
               ingestion' = Failed
          /\ ingestion' = Failed =>
               /\ \A m \in UsageMessages : DeliveredInStep(m) => m \in usage_queue'
               /\ usage_queue' = usage_queue
          /\ ingestion' = Success =>
               \A m \in UsageMessages :
                  DeliveredInStep(m) =>
                    /\ Keyed(m)
                    /\ ExactlyOneRecord(usage_table', EventOf(m))
                    /\ m \notin usage_queue'
      ]_vars

\* a batch failed after the record of its first message was written: the
\* message is in the store and still in the queue
C13_Witness ==
    /\ ingestion = Failed
    /\ \E m \in usage_queue :
          /\ Keyed(m) /\ "total_tokens" \in DOMAIN EventOf(m)
          /\ ExactlyOneRecord(usage_table, EventOf(m))
          /\ receive_count[m.MessageId] = 1

Sent(m) == m.MessageId \in DOMAIN receive_count

HasRecord(m) == Keyed(m) /\ ExactlyOneRecord(usage_table, EventOf(m))

FailsEveryDelivery(m) ==
    CannotBeWritten(m) \/ "total_tokens" \notin DOMAIN EventOf(m)

\* C15: a message is handed to Ingestion at most 3 times; a message in the
\* dead-letter queue was handed out 3 times, has left the usage queue, stays
\* parked and is never handed to Ingestion again; and a message whose batch
\* fails on every delivery does end up in the dead-letter queue.
C15_BoundedRetryThenParked ==
    /\ [](\A m \in UsageMessages :
            Sent(m) =>
              /\ receive_count[m.MessageId] <= 3
              /\ m \in usage_dlq =>
                   (receive_count[m.MessageId] = 3 /\ m \notin usage_queue))
    /\ [][\A m \in usage_dlq :
            /\ m \in usage_dlq'
            /\ receive_count'[m.MessageId] = receive_count[m.MessageId]]_vars
    /\ \A m \in UsageMessages :
          (Sent(m) /\ FailsEveryDelivery(m)) ~> (m \in usage_dlq)

\* the message whose body is not JSON is parked after three receives while
\* another message is still in the queue and can be handed out
C15_Witness ==
    \E m \in usage_dlq :
        /\ m.body.kind # "object"
        /\ receive_count[m.MessageId] = 3
        /\ \E other \in usage_queue : receive_count[other.MessageId] < 3

\* the records a step appended to the stream, i.e. the batch of the
\* invocation that started in the step
NewRecords == {stream'[p] : p \in (Len(stream) + 1)..Len(stream')}

\* the INSERT records of tenant t among the positions ps of the stream
InsertRecordsOf(ps, t) ==
    {p \in ps : stream[p].eventName = "INSERT" /\ EventTenant(p) = t}

\* C16: only INSERT records are acted on. A batch without an INSERT record
\* writes to no aggregate row and its invocation completes at once; every
\* update adds, for its tenant, the tokens and the number of the INSERT
\* records of the batch and nothing for its MODIFY and REMOVE records, whose
\* increment is never applied.
C16_OnlyInsertsCount ==
    [][ /\ (/\ Len(stream') > Len(stream)
            /\ \A rec \in NewRecords : rec.eventName # "INSERT") =>
              /\ aggregation_table' = aggregation_table
              /\ inv' = inv
        /\ \A p \in DOMAIN stream' :
              stream'[p].eventName # "INSERT" => applied'[p] = 0
        /\ \A i \in Invocations :
              (inv[i].pc = "updating" /\ inv'[i] # inv[i]) =>
                 \A t \in TenantIds :
                    LET ps == IF t = inv[i].order[inv[i].next]
                              THEN InsertRecordsOf(inv[i].batch, t) ELSE {}
                    IN  /\ Get(ItemOf(aggregation_table', t), "request_count", 0) =
                           Get(ItemOf(aggregation_table, t), "request_count", 0) +
                           Cardinality(ps)
                        /\ Get(ItemOf(aggregation_table', t), "total_tokens", 0) =
                           Get(ItemOf(aggregation_table, t), "total_tokens", 0) +
                           SumOver(ps, [p \in ps |-> stream[p].NewImage.total_tokens.N])
      ]_vars

\* a batch of a MODIFY, an INSERT and a REMOVE record was applied: the row
\* counts one request
C16_Witness ==
    /\ Quiescent
    /\ Len(stream) = 3
    /\ stream[1].eventName = "MODIFY" /\ stream[3].eventName = "REMOVE"
    /\ stream[2].eventName = "INSERT" /\ EventTenant(2) = "t1"
    /\ applied = <<0, 1, 0>>
    /\ ItemOf(aggregation_table, "t1").request_count = 1

\* C17: when an update fails the batch is not partly applied: the failed
\* invocation has changed no row, so the increments of the INSERT records
\* of its batch have all been applied the same number of times (a batch is
\* applied for all of its tenants or for none).
C17_FailedBatchNotPartlyApplied ==
    \A i \in Invocations :
        inv[i].pc = "failed" =>
            \A p, q \in Inserts(inv[i].batch) : applied[p] = applied[q]

\* the attributes an aggregate row can carry: none of them identifies the
\* events whose increments the row holds
RowAttributes ==
    {"aggregation_key", "tenant_id", "token_limit"} \cup CounterFields \cup CostFields

EachInsertProcessedTwice ==
    \A p \in DOMAIN stream : stream[p].eventName = "INSERT" => applied[p] = 2

\* C18: the Aggregator is not idempotent. Every processing of an INSERT
\* record adds its tokens and one request to its tenant's row, also when
\* the record was processed before: each counter is the sum over the
\* tenant's events of the tokens times the number of times the event was
\* processed, so a batch processed twice is counted twice. No row carries
\* an attribute that identifies processed events.
C18_ReplayCountsTwice ==
    \A t \in TenantIds :
        LET ps   == EventsOf(t)
            item == ItemOf(aggregation_table, t)
        IN  /\ DOMAIN item \subseteq RowAttributes
            /\ Get(item, "request_count", 0) = SumOver(ps, [p \in ps |-> applied[p]])
            /\ Get(item, "total_tokens", 0) =
                 SumOver(ps, [p \in ps |->
                                applied[p] * stream[p].NewImage.total_tokens.N])
            /\ (Quiescent /\ EachInsertProcessedTwice) =>
                 /\ Get(item, "request_count", 0) = 2 * Cardinality(ps)
                 /\ Get(item, "total_tokens", 0) =
                      2 * SumOver(ps, [p \in ps |-> stream[p].NewImage.total_tokens.N])

\* a batch of two events of one tenant was processed, delivered again and
\* processed again: the row counts four requests
C18_Witness ==
    /\ Quiescent /\ EachInsertProcessedTwice
    /\ Cardinality(EventsOf("t1")) = 2
    /\ ItemOf(aggregation_table, "t1").request_count = 4

\* C19: every aggregate row has total_tokens = input_tokens + output_tokens
\* (an absent counter counts as 0), whatever usage events Ingestion accepted.
C19_TotalIsInputPlusOutput ==
    \A t \in TenantIds :
        LET item == ItemOf(aggregation_table, t)
        IN  Get(item, "total_tokens", 0) =
            Get(item, "input_tokens", 0) + Get(item, "output_tokens", 0)

\* C20: with costs in units of 10^-6, every aggregate row has
\* input_cost = 3 * input_tokens (0.003 per 1000), output_cost =
\* 15 * output_tokens (0.015 per 1000) and total_cost = input_cost +
\* output_cost, exactly, after any number of increments, the smallest
\* (one token) included.
C20_CostsExact ==
    \A t \in TenantIds :
        LET item == ItemOf(aggregation_table, t)
        IN  /\ Get(item, "input_cost", 0) = 3 * Get(item, "input_tokens", 0)
            /\ Get(item, "output_cost", 0) = 15 * Get(item, "output_tokens", 0)
            /\ Get(item, "total_cost", 0) =
                 Get(item, "input_cost", 0) + Get(item, "output_cost", 0)

\* a row that received at least four increments, one of them of a single
\* input token
C20_Witness ==
    LET item == ItemOf(aggregation_table, "t1")
    IN  /\ \E p \in EventsOf("t1") :
              /\ applied[p] >= 2
              /\ stream[p].NewImage.input_tokens.N = 1
        /\ SumOver(EventsOf("t1"), [p \in EventsOf("t1") |-> applied[p]]) >= 4
        /\ item.input_cost = 3 * item.input_tokens
        /\ item.total_cost >= 4 * 18

\* C21: the counters of every tenant's row are non-negative and no step of
\* the Aggregator or of Limit Administration lowers or overwrites one: each
\* counter is after the step at least what it was before, and a row that
\* exists before the step exists after it.
C21_CountersNeverDecrease ==
    [][ /\ DOMAIN aggregation_table \subseteq DOMAIN aggregation_table'
        /\ \A t \in TenantIds :
             \A name \in CounterFields :
                /\ Get(ItemOf(aggregation_table', t), name, 0) >=
                   Get(ItemOf(aggregation_table, t), name, 0)
                /\ Get(ItemOf(aggregation_table', t), name, 0) >= 0
                /\ name \in DOMAIN ItemOf(aggregation_table, t) =>
                     name \in DOMAIN ItemOf(aggregation_table', t)
      ]_vars

\* a limit was set on a row that holds the counters of two events while an
\* invocation is about to add to the same row
C21_Witness ==
    \E i \in Invocations :
        /\ inv[i].pc = "updating"
        /\ inv[i].order[inv[i].next] = "t1"
        /\ request.op = "set_tenant_limit" /\ request.body.tenantId = "t1"
        /\ ItemOf(aggregation_table, "t1").token_limit = 4
        /\ Get(ItemOf(aggregation_table, "t1"), "request_count", 0) = 2

\* the step invokes the agent runtime
InvokedInStep == agent_calls' = agent_calls + 1

\* C22: the quota check is not linked to the recording of usage. Every
\* request that is invoked passed the gate (the row read at its check had
\* no limit or total_tokens below it) and every usage event aggregated is
\* that of an invoked request, and still the tenant's total_tokens can end
\* above its token_limit (the state C22_Witness is reached).
C22_AdmittedOnlyBelowLimit ==
    [][ /\ InvokedInStep =>
             LET item == ItemOf(aggregation_table, request'.body.tenantId)
             IN  /\ gate'.checked /\ gate'.allowed
                 /\ "token_limit" \in DOMAIN item =>
                      Get(item, "total_tokens", 0) < item.token_limit
        /\ Len(stream') <= agent_calls'
      ]_vars

\* two requests were admitted and invoked, the usage of both was aggregated
\* afterwards, and the total is above the limit of 3
C22_Witness ==
    LET item == ItemOf(aggregation_table, QuotaTenant)
    IN  /\ "token_limit" \in DOMAIN item /\ item.token_limit = 3
        /\ agent_calls = 2
        /\ Quiescent
        /\ applied = <<1, 1>>
        /\ Get(item, "total_tokens", 0) > item.token_limit

\* the body is a JSON object without `id` or without `total_tokens`
LacksRequiredField(m) ==
    /\ m.body.kind = "object"
    /\ ~({"id", "total_tokens"} \subseteq DOMAIN EventOf(m))

\* C23: a usage message whose body lacks `id` or `total_tokens` is rejected:
\* the invocation it is delivered to fails, and the record store never holds
\* a record for it.
C23_IncompleteMessageNotStored ==
    \A m \in UsageMessages :
        LacksRequiredField(m) =>
            /\ ~(Keyed(m) /\ StoredUnder(usage_table, EventOf(m)) # {})
            /\ (Sent(m) /\ receive_count[m.MessageId] > 0) =>
                  (m \in usage_queue \/ m \in usage_dlq)

\* the events of tenant t in the record store
StoredEventsOf(t) ==
    {k \in DOMAIN usage_table : Get(usage_table[k], "tenant_id", "default") = t}

\* C24: redelivery at Ingestion does not inflate the aggregate: a tenant's
\* request_count never exceeds the number of its events in the record
\* store, and once every change record has been handed to the Aggregator
\* and processed it equals that number, however many times the messages
\* were delivered to Ingestion.
C24_RedeliveryDoesNotInflate ==
    \A t \in TenantIds :
        LET count == Get(ItemOf(aggregation_table, t), "request_count", 0)
        IN  /\ count <= Cardinality(StoredEventsOf(t))
            /\ (Quiescent /\ PendingRecords = {}) =>
                  count = Cardinality(StoredEventsOf(t))

\* a message was delivered three times (its first batches failed after its
\* record was written or before), two events of the tenant are stored and
\* the row counts two requests
C24_Witness ==
    /\ Quiescent /\ PendingRecords = {}
    /\ \E m \in AcceptedMessages :
          /\ Sent(m) /\ receive_count[m.MessageId] = 3
          /\ m \notin usage_queue /\ m \notin usage_dlq
          /\ Get(EventOf(m), "tenant_id", "default") = "t1"
    /\ Cardinality(StoredEventsOf("t1")) = 2
    /\ ItemOf(aggregation_table, "t1").request_count = 2

\* the step changes no row but those of tenant t: every row that carries
\* another tenant_id is as it was, and a row the step created carries t
OnlyRowsOfChange(t) ==
    /\ \A k \in DOMAIN aggregation_table :
          aggregation_table[k].tenant_id # t =>
             /\ k \in DOMAIN aggregation_table'
             /\ aggregation_table'[k] = aggregation_table[k]
    /\ \A k \in DOMAIN aggregation_table' \ DOMAIN aggregation_table :
          aggregation_table'[k].tenant_id = t

\* C25: tenant isolation. An update of the Aggregator changes only the row
\* of a tenant that has an INSERT record in the batch (the default tenant
\* for records without tenant_id), a limit-set for a tenant changes only
\* that tenant's row, and handing a batch over changes no row.
C25_TenantIsolation ==
    [][ /\ \A i \in Invocations :
              (inv[i].pc = "updating" /\ inv'[i] # inv[i]) =>
                 \E t \in TenantIds :
                    /\ InsertRecordsOf(inv[i].batch, t) # {}
                    /\ OnlyRowsOfChange(t)
        /\ (LimitStep /\ request'.op = "set_tenant_limit") =>
              OnlyRowsOfChange(request'.body.tenantId)
        /\ Len(stream') > Len(stream) => aggregation_table' = aggregation_table
      ]_vars

\* both tenants have a row with counters, one with a limit, while an
\* invocation is about to update the default tenant's row
C25_Witness ==
    \E i \in Invocations :
        /\ inv[i].pc = "updating"
        /\ inv[i].order[inv[i].next] = "default"
        /\ Get(ItemOf(aggregation_table, "default"), "request_count", 0) > 0
        /\ Get(ItemOf(aggregation_table, "t1"), "request_count", 0) > 0
        /\ "token_limit" \in DOMAIN ItemOf(aggregation_table, "t1")

\* C26: the token_limit of every aggregate row is absent or an integer
\* >= 1, whatever limit-set requests were made (valid or not), and no step
\* removes the token_limit of a row that has one.
C26_LimitAbsentOrPositive ==
    /\ [](\A k \in DOMAIN aggregation_table :
             "token_limit" \in DOMAIN aggregation_table[k] =>
                /\ aggregation_table[k].token_limit \in Int
                /\ aggregation_table[k].token_limit >= 1)
    /\ [][\A k \in DOMAIN aggregation_table :
             "token_limit" \in DOMAIN aggregation_table[k] =>
                /\ k \in DOMAIN aggregation_table'
                /\ "token_limit" \in DOMAIN aggregation_table'[k]]_vars

\* a request with a limit of zero or less was refused for a tenant whose
\* row has no limit, and the row still has none
C26_Witness ==
    /\ request.op = "set_tenant_limit"
    /\ "tenantId" \in DOMAIN request.body /\ request.body.tenantId = "t1"
    /\ "tokenLimit" \in DOMAIN request.body
    /\ request.body.tokenLimit.type = "int" /\ request.body.tokenLimit.n <= 0
    /\ AggregationKey("t1") \in DOMAIN aggregation_table
    /\ "token_limit" \notin DOMAIN ItemOf(aggregation_table, "t1")
    /\ response.statusCode = 400

\* the row of tenant t has a limit and its total_tokens has reached it
AtLimit(table, t) ==
    /\ "token_limit" \in DOMAIN ItemOf(table, t)
    /\ Get(ItemOf(table, t), "total_tokens", 0) >= ItemOf(table, t).token_limit

\* the step is a limit-set for t / a quota check
LimitSetStep(t) ==
    /\ LimitStep
    /\ request'.op = "set_tenant_limit"
    /\ request'.body.tenantId = t

CheckStep ==
    /\ request'.op = "invoke_agent"
    /\ request' # request \/ gate' # gate \/ agent_calls' # agent_calls

\* C27: denial is stable. A check denies exactly when it reads a row that
\* has reached its limit; a row that has reached its limit stays so through
\* every step that is not a limit-set for its tenant; and a check whose
\* read succeeds on such a row denies and does not invoke. So after a
\* denial every later check of the tenant with a successful read denies
\* until a limit-set for the tenant happens.
C27_DenialStable ==
    [][ \A t \in {QuotaTenant} :
          /\ (AtLimit(aggregation_table, t) /\ ~LimitSetStep(t)) =>
                AtLimit(aggregation_table', t)
          /\ (CheckStep /\ request'.body.tenantId = t) =>
                /\ (gate'.checked /\ ~gate'.allowed) =>
                      AtLimit(aggregation_table, t)
                /\ (AtLimit(aggregation_table, t) /\ ~request'.get_item_raises) =>
                      /\ gate'.checked /\ ~gate'.allowed
                      /\ agent_calls' = agent_calls
                      /\ response'.statusCode = 429
      ]_vars

\* the last request was a check that denied, and usage of the tenant was
\* aggregated after it: the row's total is above the total the check read
C27_Witness ==
    /\ request.op = "invoke_agent"
    /\ gate.checked /\ ~gate.allowed
    /\ gate.usage_info.total_tokens <
         Get(ItemOf(aggregation_table, QuotaTenant), "total_tokens", 0)
    /\ gate.usage_info.total_tokens > gate.usage_info.token_limit

\* the step is a run of the invoke handler
InvokeHandlerStep == request = NoRequest /\ request'.op = "invoke_agent"

\* C28: the agent runtime is never invoked for a request the Quota Gate
\* denies. A run of the invoke handler in which the check denies answers
\* 429 and leaves the number of runtime invocations unchanged; a run that
\* invokes the runtime made no check or a check that allowed.
C28_DeniedNeverInvoked ==
    [][ InvokeHandlerStep =>
          /\ (gate'.checked /\ ~gate'.allowed) =>
                /\ agent_calls' = agent_calls
                /\ response'.statusCode = 429
          /\ agent_calls' # agent_calls =>
                /\ agent_calls' = agent_calls + 1
                /\ ~gate'.checked \/ gate'.allowed
      ]_vars

\* a well-formed request for a tenant at its limit was denied, and the
\* runtime was not invoked
C28_Witness ==
    /\ request.op = "invoke_agent"
    /\ ~Falsy(request.body, "agentId") /\ ~Falsy(request.body, "inputText")
    /\ ~request.invoke_raises
    /\ gate.checked /\ ~gate.allowed
    /\ response.statusCode = 429
    /\ agent_calls = 0

\* C29: a request whose body carries no tenantId (absent or empty) is never
\* denied: no check is made, the answer is not 429, and when agentId and
\* inputText are given the runtime is invoked, whatever rows the table
\* holds. A check that is made reads the row of the tenantId named in the
\* body, and a denial means that this row has reached its limit.
C29_NoTenantNeverDenied ==
    [][ InvokeHandlerStep =>
          /\ Falsy(request'.body, "tenantId") =>
                /\ ~gate'.checked
                /\ response'.statusCode # 429
                /\ (~Falsy(request'.body, "agentId") /\ ~Falsy(request'.body, "inputText")) =>
                      agent_calls' = agent_calls + 1
          /\ gate'.checked =>
                /\ ~Falsy(request'.body, "tenantId")
                /\ gate' = check_token_limit(aggregation_table, request'.body.tenantId,
                                             request'.configured,
                                             request'.get_item_raises)
                /\ ~gate'.allowed => AtLimit(aggregation_table, request'.body.tenantId)
      ]_vars

\* a request without tenantId was invoked although the rows of the default
\* tenant and of t1 are both at their limits
C29_Witness ==
    /\ request.op = "invoke_agent"
    /\ "tenantId" \notin DOMAIN request.body
    /\ request.configured /\ ~request.get_item_raises
    /\ AtLimit(aggregation_table, "default")
    /\ AtLimit(aggregation_table, "t1")
    /\ ~gate.checked
    /\ agent_calls = 1
    /\ response.statusCode = 200

\* the keys under which the events of AcceptedMessages are stored
AcceptedKeys == {UsageKey(EventOf(m)) : m \in AcceptedMessages}

\* the record stored under key k has been applied by the Aggregator
Aggregated(k) ==
    \E p \in DOMAIN stream :
        /\ stream[p] = InsertRecord(usage_table[k])
        /\ applied[p] >= 1

\* every event in the record store is included in its tenant's row
AllStoredAggregated ==
    /\ \A k \in DOMAIN usage_table : Aggregated(k)
    /\ \A t \in TenantIds :
          Get(ItemOf(aggregation_table, t), "request_count", 0)
             >= Cardinality(StoredEventsOf(t))

\* C30: with transient update failures every stored usage event is
\* eventually aggregated at least once. Records are never removed from the
\* record store and request_count never falls, so the claim is that the
\* pipeline catches up again and again: at every time there is a later
\* state in which an update made from the INSERT record of every stored
\* event has succeeded and the request_count of every tenant's row, which
\* a quota check reads, is at least the number of the tenant's stored
\* events.
C30_StoredEventuallyAggregated == []<>AllStoredAggregated

\* every stored event is aggregated and one of them twice: its batch failed
\* after the update of its tenant's row and was delivered again
C30_Witness ==
    /\ Quiescent /\ PendingRecords = {}
    /\ Cardinality(DOMAIN usage_table) >= 2
    /\ AllStoredAggregated
    /\ \E p \in DOMAIN stream : applied[p] >= 2

====
